---- MODULE Spec2Model ----
(***************************************************************************)
(* Model of the GigaChat text generator plugin (src/main.ts): the token    *)
(* fetch, the chat-completion requests, the Generate handler of the modal  *)
(* and the connection test of the settings tab.                            *)
(*                                                                         *)
(* Strings are TLA+ strings.  The user-facing Russian texts of the source  *)
(* are written in Latin letters (the parser takes ASCII strings only), so  *)
(* the source's context marker appears as "Kontekst:".  Temperatures are   *)
(* counted in tenths (the slider's step, line 660): 7 is 0.7, 1 is 0.1.    *)
(*                                                                         *)
(* Of the log container the model keeps whether it exists (logContainer)   *)
(* and its last child (panel), the entry logMessage scrolls it to; of the  *)
(* editor, the cursor and the insertions with their positions.             *)
(***************************************************************************)
EXTENDS Integers, Sequences, FiniteSets, TLC

VARIABLES
    settings,      \* TextGeneratorPlugin.settings, shared with every modal (line 55)
    logContainer,  \* TextGeneratorPlugin.logContainer: TRUE when non-null
    modal,         \* the TextGenerationModal instance and its elements
    editor,        \* the texts inserted into the editor, in order
    act,           \* the two asynchronous handlers: "gen" (Generate) and "test"
    net,           \* HTTP requests sent and not yet answered
    nChanges,      \* number of settings edits so far
    panel,         \* the last child of the log container (the entry it is scrolled to)
    cursor         \* the editor's cursor position

vars == <<settings, logContainer, modal, editor, act, net, nChanges, panel, cursor>>

----------------------------------------------------------------------------
(* Bounds of the model *)

\* settings edits explored in one behaviour
MaxChanges == 1

----------------------------------------------------------------------------
(* Values *)

Actors == {"gen", "test"}

\* an absent JSON field read in JavaScript (undefined)
Undefined == "<undefined>"

\* JavaScript truthiness of a string-or-undefined value
Falsy(v) == v \in {"", Undefined}

\* a value inside a template literal: undefined prints as "undefined"
Template(v) == IF v = Undefined THEN "undefined" ELSE v

DEFAULT_SETTINGS ==
    [ apiKey      |-> "",
      apiUrl      |-> "https://gigachat/api/v1",
      authUrl     |-> "https://ngw/api/v2/oauth",
      clientId    |-> "base64id",
      scope       |-> "GIGACHAT_API_PERS",
      model       |-> "GigaChat",
      temperature |-> 7,
      maxTokens   |-> 1000,
      logMessages |-> TRUE ]

\* the values an onChange handler of the settings tab may write, per field
FieldValues ==
    [ apiKey      |-> {"", "key"},
      apiUrl      |-> {"https://gigachat/api/v1", "https://other/api"},
      authUrl     |-> {"https://ngw/api/v2/oauth", "https://other/oauth"},
      clientId    |-> {"base64id", ""},
      scope       |-> {"GIGACHAT_API_PERS", ""},
      model       |-> {"GigaChat", "GigaChat-Pro"},
      temperature |-> {7, 1},
      maxTokens   |-> {1000, 10},
      logMessages |-> {TRUE, FALSE} ]

Fields == DOMAIN DEFAULT_SETTINGS

\* what the user may type into the prompt textarea
Prompts == {"", "Hello"}

\* what may be selected in the editor when a command runs
Selections == {"", "some text"}

\* the prompts of the quick command buttons (one of the four of lines 343-348)
QuickCommands == {"Uluchshi etot tekst:"}

\* cursor positions in the editor
Positions == {0, 1}

\* RqUID values generateUuid may return
Uuids == {"uuid-1"}

\* answers of the token endpoint: the transport fails, or a status with a body
TokenAnswers ==
    { [net |-> FALSE, ok |-> FALSE, status |-> 0, statusText |-> "",
       json |-> FALSE, access_token |-> Undefined] }
    \cup
    { [net |-> TRUE, ok |-> FALSE, status |-> s[1], statusText |-> s[2],
       json |-> FALSE, access_token |-> Undefined] :
         s \in {<<401, "Unauthorized">>} }
    \cup
    { [net |-> TRUE, ok |-> TRUE, status |-> 200, statusText |-> "OK",
       json |-> FALSE, access_token |-> Undefined] }
    \cup
    { [net |-> TRUE, ok |-> TRUE, status |-> 200, statusText |-> "OK",
       json |-> TRUE, access_token |-> t] : t \in {Undefined, "T1"} }

\* answers of the completion endpoint; content is choices[0].message.content,
\* choices is FALSE when the parsed body has no choices[0]
CompletionAnswers ==
    { [net |-> FALSE, ok |-> FALSE, status |-> 0, statusText |-> "",
       json |-> FALSE, choices |-> FALSE, content |-> ""] }
    \cup
    { [net |-> TRUE, ok |-> FALSE, status |-> s[1], statusText |-> s[2],
       json |-> FALSE, choices |-> FALSE, content |-> ""] :
         s \in {<<500, "Internal Server Error">>} }
    \cup
    { [net |-> TRUE, ok |-> TRUE, status |-> 200, statusText |-> "OK",
       json |-> j[1], choices |-> j[2], content |-> j[3]] :
         j \in {<<FALSE, FALSE, "">>, <<TRUE, FALSE, "">>, <<TRUE, TRUE, "Generated">>} }

----------------------------------------------------------------------------
(* The state of one handler invocation.  button, statusEl and notice are   *)
(* the elements the handler's closure holds; the other fields record what  *)
(* the invocation has done since its click passed the precondition checks. *)

GenerateLabel == [text |-> "Sgenerirovat", disabled |-> FALSE]
TestLabel     == [text |-> "Testirovat podklyuchenie", disabled |-> FALSE]

NoAnswer == [net |-> FALSE, ok |-> FALSE, status |-> -1, statusText |-> "",
             json |-> FALSE]

IdleAct(label) ==
    [ pc       |-> "idle",     \* "idle", "awaitToken" or "awaitCompletion"
      button   |-> label,
      statusEl |-> [text |-> "", style |-> ""],
      notice   |-> "",         \* the last Notice shown
      cfg0     |-> DEFAULT_SETTINGS,  \* the settings when the action started
      prompt   |-> "",
      context  |-> "",
      sent     |-> << >>,      \* the requests this action has sent, in order
      tokenAns |-> NoAnswer,   \* the answer to its token request
      complAns |-> NoAnswer,   \* the answer to its completion request
      gotToken |-> FALSE,      \* getAccessToken returned
      token    |-> Undefined,  \* ... this value
      thrown   |-> "",         \* message of the error a request function threw
      caught   |-> "",         \* message of the error the caller's catch got
      logOn    |-> FALSE,      \* settings.logMessages when the error was caught
      log      |-> << >>,      \* the entries logMessage emitted in this action
      inserted |-> 0,          \* replaceRange calls of this action
      result   |-> "none",     \* what testConnection returned
      done     |-> FALSE ]     \* the handler has run to its end

\* the record of a new action on the elements of r
Fresh(r, label) ==
    [IdleAct(label) EXCEPT !.button = r.button, !.statusEl = r.statusEl,
                           !.notice = r.notice]

OriginalLabel(a) == IF a = "gen" THEN GenerateLabel ELSE TestLabel

----------------------------------------------------------------------------
(* TextGeneratorPlugin *)

\* logMessage (lines 125-135): nothing when logging is off; else an entry on
\* the console; appendToPanel below is its last part
logMessage(r, message, type) ==
    IF ~settings.logMessages
    THEN r
    ELSE [r EXCEPT !.log = Append(@, [type |-> type, message |-> message])]

\* what the log container shows when it has no child, or does not exist
NoEntry == [type |-> "", message |-> ""]

\* the entries r2 has logged that r had not
Logged(r, r2) == SubSeq(r2.log, Len(r.log) + 1, Len(r2.log))

\* appendToPanel without the check that there is a container
appendToPanel_NoSinkCheck(entries) ==
    IF entries # << >>
    THEN entries[Len(entries)]
    ELSE panel

\* the end of logMessage (lines 137-145) for the entries of one handler
\* step: each becomes a child of the log container when there is one, and
\* the container scrolls to it
appendToPanel(entries) ==
    IF logContainer /\ entries # << >>
    THEN entries[Len(entries)]
    ELSE panel

\* the Error of lines 213 and 259
HttpError(status, statusText) ==
    "HTTP " \o ToString(status) \o ": " \o statusText

\* the message of the error fetch or json() rejects with
TransportError(ans) ==
    IF ~ans.net THEN "Failed to fetch" ELSE "Unexpected token in JSON"

\* the fetch of getAccessToken (lines 201-209)
TokenRequest(uuid) ==
    [ kind          |-> "token",
      url           |-> settings.authUrl,
      method        |-> "POST",
      contentType   |-> "application/x-www-form-urlencoded",
      authorization |-> "Basic " \o settings.clientId,
      rqUID         |-> uuid,
      body          |-> "scope=" \o settings.scope ]

\* getAccessTokenSend with the fetch issued twice
getAccessTokenSend_Twice(r, uuid) ==
    LET r1 == logMessage(r, "Otpravka zaprosa dlya polucheniya access token...", "info")
    IN  [r1 EXCEPT !.sent = Append(Append(@, TokenRequest(uuid)), TokenRequest(uuid))]

\* getAccessToken up to its first await (lines 197-209)
getAccessTokenSend(r, uuid) ==
    LET r1 == logMessage(r, "Otpravka zaprosa dlya polucheniya access token...", "info")
    IN  [r1 EXCEPT !.sent = Append(@, TokenRequest(uuid))]

\* getAccessTokenCatch without its rethrow: the error is logged and lost
getAccessTokenCatch_NoRethrow(r, message) ==
    logMessage(r, "Oshibka polucheniya access token: " \o message, "error")

\* the catch of getAccessToken (lines 221-225): log and rethrow
getAccessTokenCatch(r, message) ==
    [logMessage(r, "Oshibka polucheniya access token: " \o message, "error")
        EXCEPT !.thrown = message]

\* getAccessToken from the answer on (lines 211-225)
getAccessTokenResume(r, ans) ==
    LET r0 == [r EXCEPT !.tokenAns = [net |-> ans.net, ok |-> ans.ok,
                                      status |-> ans.status,
                                      statusText |-> ans.statusText,
                                      json |-> ans.json]]
    IN  IF ~ans.net THEN getAccessTokenCatch(r0, TransportError(ans))
        ELSE IF ~ans.ok
             THEN getAccessTokenCatch(r0, HttpError(ans.status, ans.statusText))
        ELSE IF ~ans.json THEN getAccessTokenCatch(r0, TransportError(ans))
        ELSE [logMessage(r0, "Access token poluchen, srok dejstviya: 1800 sek", "info")
                EXCEPT !.gotToken = TRUE, !.token = ans.access_token]

\* the request body shared by the three completion requests
CompletionRequest(accessToken, content, temperature, max_tokens) ==
    [ kind          |-> "completion",
      url           |-> settings.apiUrl \o "/chat/completions",
      method        |-> "POST",
      contentType   |-> "application/json",
      authorization |-> "Bearer " \o Template(accessToken),
      body          |-> [ model       |-> settings.model,
                          messages    |-> << [role |-> "user", content |-> content] >>,
                          temperature |-> temperature,
                          max_tokens  |-> max_tokens ] ]

\* temperature and max_tokens of the test request (lines 252-253)
TestTemperature == 1
TestMaxTokens == 10

\* TestApiRequest with the configured generation parameters
TestApiRequest_ConfiguredParams(accessToken) ==
    CompletionRequest(accessToken, "Otvet odnim slovom: \"rabotaet\"",
                      settings.temperature, settings.maxTokens)

\* the fetch of testApiRequest (lines 238-255)
TestApiRequest(accessToken) ==
    CompletionRequest(accessToken, "Otvet odnim slovom: \"rabotaet\"",
                      TestTemperature, TestMaxTokens)

\* testApiRequest up to its await (lines 234-255)
testApiRequestSend(r, accessToken) ==
    LET r1 == logMessage(r, "Otpravka testovogo zaprosa k GigaChat API...", "info")
    IN  [r1 EXCEPT !.sent = Append(@, TestApiRequest(accessToken))]

\* the catch of testApiRequest (lines 267-271): log, return false
testApiRequestCatch(r, message) ==
    [logMessage(r, "Oshibka testovogo zaprosa: " \o message, "error")
        EXCEPT !.result = "false"]

\* testApiRequest from the answer on (lines 257-271): its boolean in result
testApiRequestResume(r, ans) ==
    LET r0 == [r EXCEPT !.complAns = [net |-> ans.net, ok |-> ans.ok,
                                      status |-> ans.status,
                                      statusText |-> ans.statusText,
                                      json |-> ans.json]]
    IN  IF ~ans.net THEN testApiRequestCatch(r0, TransportError(ans))
        ELSE IF ~ans.ok
             THEN testApiRequestCatch(r0, HttpError(ans.status, ans.statusText))
        ELSE IF ~ans.json THEN testApiRequestCatch(r0, TransportError(ans))
        ELSE [logMessage(r0, "Testovyj otvet poluchen", "info")
                EXCEPT !.result = "true"]

\* testConnectionStart without the API key check
testConnectionStart_NoKeyCheck(r, uuid) ==
    LET r1 == logMessage(r, "Nachinaem testirovanie podklyucheniya k GigaChat...", "info")
    IN  [getAccessTokenSend(logMessage(r1, "Poluchenie access token...", "info"), uuid)
            EXCEPT !.pc = "awaitToken"]

\* testConnection up to its first await (lines 153-164); the API key check
\* returns false before any request
testConnectionStart(r, uuid) ==
    LET r1 == logMessage(r, "Nachinaem testirovanie podklyucheniya k GigaChat...", "info")
    IN  IF Falsy(settings.apiKey)
        THEN [logMessage(r1, "API klyuch ne ustanovlen", "error")
                EXCEPT !.result = "false"]
        ELSE [getAccessTokenSend(logMessage(r1, "Poluchenie access token...", "info"), uuid)
                EXCEPT !.pc = "awaitToken"]

\* the catch of testConnection (lines 185-189)
testConnectionCatch(r) ==
    [logMessage(r, "Oshibka pri testirovanii: " \o r.thrown, "error")
        EXCEPT !.caught = r.thrown, !.logOn = settings.logMessages,
               !.result = "false"]

\* testConnection after getAccessToken settled (lines 164-175); r is the
\* record getAccessTokenResume left
testConnectionAfterToken(r) ==
    IF r.thrown # "" THEN testConnectionCatch(r)
    ELSE IF Falsy(r.token)
         THEN [logMessage(r, "Ne udalos poluchit access token", "error")
                 EXCEPT !.logOn = settings.logMessages, !.result = "false"]
    ELSE LET r1 == logMessage(r, "Access token uspeshno poluchen", "success")
             r2 == logMessage(r1, "Testirovanie otpravki soobscheniya...", "info")
         IN  [testApiRequestSend(r2, r.token) EXCEPT !.pc = "awaitCompletion"]

\* testConnection after testApiRequest returned (lines 175-183); r is the
\* record testApiRequestResume left
testConnectionAfterRequest(r) ==
    IF r.result = "true"
    THEN logMessage(r, "Podklyuchenie k GigaChat API uspeshno ustanovleno!", "success")
    ELSE [logMessage(r, "Ne udalos otpravit testovyj zapros", "error")
            EXCEPT !.logOn = settings.logMessages]

----------------------------------------------------------------------------
(* TextGenerationModal *)

\* the Error of lines 470 and 515
ApiError(status, statusText) ==
    "API error: " \o ToString(status) \o " " \o statusText

\* the fetch of generateText (lines 449-466)
generateTextRequest(prompt, accessToken) ==
    CompletionRequest(accessToken, prompt, settings.temperature, settings.maxTokens)

\* generateTextWithContextRequest with the context appended unquoted
generateTextWithContextRequest_NoQuotes(prompt, context, accessToken) ==
    LET fullPrompt == prompt \o "\n\nKontekst:\n" \o context
    IN  CompletionRequest(accessToken, fullPrompt, settings.temperature,
                          settings.maxTokens)

\* fullPrompt and the fetch of generateTextWithContext (lines 493-512)
generateTextWithContextRequest(prompt, context, accessToken) ==
    LET fullPrompt == prompt \o "\n\nKontekst:\n\"" \o context \o "\""
    IN  CompletionRequest(accessToken, fullPrompt, settings.temperature,
                          settings.maxTokens)

\* generateText up to its await (lines 446-466)
generateTextSend(r, prompt, accessToken) ==
    LET r1 == logMessage(r, "Generaciya teksta dlya zaprosa: " \o prompt \o "...", "info")
    IN  [r1 EXCEPT !.sent = Append(@, generateTextRequest(prompt, accessToken))]

\* generateTextWithContext up to its await (lines 490-512)
generateTextWithContextSend(r, prompt, context, accessToken) ==
    LET r1 == logMessage(r, "Generaciya s kontekstom: " \o prompt \o "...", "info")
    IN  [r1 EXCEPT !.sent = Append(@, generateTextWithContextRequest(prompt, context,
                                                                     accessToken))]

\* generateResume without the response.ok check
generateResume_NoStatusCheck(r, ans) ==
    LET r0 == [r EXCEPT !.complAns = [net |-> ans.net, ok |-> ans.ok,
                                      status |-> ans.status,
                                      statusText |-> ans.statusText,
                                      json |-> ans.json /\ ans.choices]]
    IN  IF ~ans.net THEN [r0 EXCEPT !.thrown = TransportError(ans)]
        ELSE IF ans.ok /\ ~ans.json THEN [r0 EXCEPT !.thrown = TransportError(ans)]
        ELSE IF ans.ok /\ ~ans.choices
             THEN [r0 EXCEPT !.thrown = "Cannot read properties of undefined"]
        ELSE logMessage(r0, "Sgenerirovano simvolov: " \o ToString(Len(ans.content)),
                        "success")

\* generateText and generateTextWithContext from the answer on (lines 468-479,
\* 514-522): an error thrown to the caller, or the text is returned
generateResume(r, ans) ==
    LET r0 == [r EXCEPT !.complAns = [net |-> ans.net, ok |-> ans.ok,
                                      status |-> ans.status,
                                      statusText |-> ans.statusText,
                                      json |-> ans.json /\ ans.choices]]
    IN  IF ~ans.net THEN [r0 EXCEPT !.thrown = TransportError(ans)]
        ELSE IF ~ans.ok
             THEN [r0 EXCEPT !.thrown = ApiError(ans.status, ans.statusText)]
        ELSE IF ~ans.json THEN [r0 EXCEPT !.thrown = TransportError(ans)]
        ELSE IF ~ans.choices
             THEN [r0 EXCEPT !.thrown = "Cannot read properties of undefined"]
        ELSE logMessage(r0, "Sgenerirovano simvolov: " \o ToString(Len(ans.content)),
                        "success")

\* the catch of the Generate handler (lines 420-424)
GenerateCatch(r) ==
    [logMessage(r, "Oshibka generacii: " \o r.thrown, "error")
        EXCEPT !.caught = r.thrown, !.logOn = settings.logMessages,
               !.statusEl = [text |-> "Oshibka: " \o r.thrown, style |-> "error"]]

\* GenerateFinally that leaves the button as it is
GenerateFinally_KeepDisabled(r) ==
    [r EXCEPT !.pc = "idle", !.done = TRUE]

\* the finally of the Generate handler (lines 425-429)
GenerateFinally(r) ==
    [r EXCEPT !.button = GenerateLabel, !.pc = "idle", !.done = TRUE]

\* the handler after getAccessToken settled (lines 405-414); r is the record
\* getAccessTokenResume left
GenerateAfterToken(r) ==
    IF r.thrown # "" THEN GenerateFinally(GenerateCatch(r))
    ELSE IF ~Falsy(modal.initialText)
         THEN [generateTextWithContextSend(r, r.prompt, modal.initialText, r.token)
                 EXCEPT !.pc = "awaitCompletion"]
         ELSE [generateTextSend(r, r.prompt, r.token)
                 EXCEPT !.pc = "awaitCompletion"]

----------------------------------------------------------------------------
(* TextGeneratorSettingTab *)

\* the test button's onClick after testConnection returned (lines 629-638)
TestFinish(r) ==
    [r EXCEPT !.button = TestLabel,
              !.notice = IF r.result = "true" THEN "test ok" ELSE "test failed",
              !.pc = "idle", !.done = TRUE]

----------------------------------------------------------------------------
(* Initial state: the plugin is loaded (onload, lines 45-82), the settings *)
(* are the defaults merged with the stored data, no view is shown.         *)

NoModal == [state |-> "none", initialText |-> "", promptInput |-> ""]

Init ==
    /\ settings \in {[DEFAULT_SETTINGS EXCEPT !.apiKey = k] : k \in FieldValues.apiKey}
    /\ logContainer = FALSE
    /\ modal = NoModal
    /\ editor = << >>
    /\ act = [a \in Actors |-> IdleAct(IF a = "gen" THEN GenerateLabel ELSE TestLabel)]
    /\ net = {}
    /\ nChanges = 0
    /\ panel = NoEntry
    /\ cursor = 0

\* A behaviour works through one of the two surfaces, the modal or the test
\* button of the settings tab: their handlers share nothing but the settings
\* object, which OnChange writes between any two of their steps.
ModalUnused == modal.state = "none"

TestUnused == act["test"].pc = "idle" /\ ~act["test"].done

\* the requests r2 has sent that r had not, as messages of actor a in flight
Outgoing(a, r, r2) ==
    {[actor |-> a, req |-> r2.sent[i]] : i \in (Len(r.sent) + 1)..Len(r2.sent)}

----------------------------------------------------------------------------
(* Settings tab *)

\* display() (lines 541-727) makes a new, empty log container and sets the
\* plugin's logContainer to it
Display ==
    /\ ~logContainer
    /\ logContainer' = TRUE
    /\ panel' = NoEntry
    /\ UNCHANGED <<settings, modal, editor, act, net, nChanges, cursor>>

\* hide() (lines 732-737) clears it
Hide ==
    /\ logContainer
    /\ logContainer' = FALSE
    /\ panel' = NoEntry
    /\ UNCHANGED <<settings, modal, editor, act, net, nChanges, cursor>>

\* the onChange handlers of the settings tab (lines 559-562, 571-574, 583-586,
\* 595-598, 607-610, 650-653, 663-666, 675-678, 688-691): write the field of
\* the shared settings object, then save
OnChange(f, v) ==
    /\ logContainer
    /\ nChanges < MaxChanges
    /\ v # settings[f]
    /\ settings' = [settings EXCEPT ![f] = v]
    /\ nChanges' = nChanges + 1
    /\ UNCHANGED <<logContainer, modal, editor, act, net, panel, cursor>>

\* the "clear log" button (lines 722-725): the container is emptied, then
\* logMessage is called
ClearLog ==
    /\ logContainer
    /\ LET r == logMessage([log |-> << >>], "Log ochischen", "info")
       IN  panel' = IF r.log # << >> THEN r.log[1] ELSE NoEntry
    /\ UNCHANGED <<settings, logContainer, modal, editor, act, net, nChanges, cursor>>

\* the test button's onClick up to its await (lines 621-627)
TestClick(uuid) ==
    /\ logContainer
    /\ ModalUnused
    /\ ~act["test"].button.disabled
    /\ LET r  == act["test"]
           r0 == [Fresh(r, TestLabel) EXCEPT
                    !.cfg0 = settings,
                    !.button = [text |-> "Testirovanie...", disabled |-> TRUE]]
           r1 == testConnectionStart(r0, uuid)
           r2 == IF r1.result = "none" THEN r1 ELSE TestFinish(r1)
       IN  /\ act' = [act EXCEPT !["test"] = r2]
           /\ net' = net \cup Outgoing("test", r0, r2)
           /\ panel' = appendToPanel(Logged(r0, r2))
    /\ UNCHANGED <<settings, logContainer, modal, editor, nChanges, cursor>>

\* the token endpoint answers the connection test
TestTokenResponse(m, ans) ==
    /\ m \in net /\ m.actor = "test" /\ m.req.kind = "token"
    /\ LET r  == act["test"]
           r1 == testConnectionAfterToken(getAccessTokenResume(r, ans))
           r2 == IF r1.result = "none" THEN r1 ELSE TestFinish(r1)
       IN  /\ act' = [act EXCEPT !["test"] = r2]
           /\ net' = (net \ {m}) \cup Outgoing("test", r, r2)
           /\ panel' = appendToPanel(Logged(r, r2))
    /\ UNCHANGED <<settings, logContainer, modal, editor, nChanges, cursor>>

\* the completion endpoint answers the connection test
TestCompletionResponse(m, ans) ==
    /\ m \in net /\ m.actor = "test" /\ m.req.kind = "completion"
    /\ LET r  == act["test"]
           r1 == testConnectionAfterRequest(testApiRequestResume(r, ans))
       IN  /\ act' = [act EXCEPT !["test"] = TestFinish(r1)]
           /\ net' = (net \ {m}) \cup Outgoing("test", r, r1)
           /\ panel' = appendToPanel(Logged(r, r1))
    /\ UNCHANGED <<settings, logContainer, modal, editor, nChanges, cursor>>

----------------------------------------------------------------------------
(* Modal *)

\* the two commands (lines 50-72): a new modal, with the selection as its
\* initial text for generate-from-selection; a behaviour opens one modal
OpenModal(command, selection) ==
    /\ ModalUnused
    /\ TestUnused
    /\ IF command = "generate-from-selection" /\ Falsy(selection)
       THEN /\ act' = [act EXCEPT !["gen"].notice = "Snachala vydelite tekst"]
            /\ UNCHANGED modal
       ELSE /\ modal' = [state |-> "open",
                         initialText |-> IF command = "generate-from-selection"
                                         THEN selection ELSE "",
                         promptInput |-> ""]
            /\ act' = [act EXCEPT !["gen"] = IdleAct(GenerateLabel)]
    /\ UNCHANGED <<settings, logContainer, editor, net, nChanges, panel, cursor>>

\* the user types into the prompt textarea (lines 322-325)
SetPrompt(p) ==
    /\ modal.state = "open"
    /\ p # modal.promptInput
    /\ modal' = [modal EXCEPT !.promptInput = p]
    /\ UNCHANGED <<settings, logContainer, editor, act, net, nChanges, panel, cursor>>

\* a quick command button (lines 355-357), shown when there is initial text
QuickCommand(c) ==
    /\ modal.state = "open"
    /\ ~Falsy(modal.initialText)
    /\ modal' = [modal EXCEPT !.promptInput = c \o "\n\n" \o modal.initialText]
    /\ UNCHANGED <<settings, logContainer, editor, act, net, nChanges, panel, cursor>>

\* Cancel that also gives up the running generation
Cancel_Aborts ==
    /\ modal.state = "open"
    /\ modal' = [modal EXCEPT !.state = "closed"]
    /\ net' = {m \in net : m.actor # "gen"}
    /\ act' = IF act["gen"].pc = "idle" THEN act
              ELSE [act EXCEPT !["gen"] = GenerateFinally(@)]
    /\ UNCHANGED <<settings, logContainer, editor, nChanges, panel, cursor>>

\* the Cancel button (lines 433-435)
Cancel ==
    /\ modal.state = "open"
    /\ modal' = [modal EXCEPT !.state = "closed"]
    /\ UNCHANGED <<settings, logContainer, editor, act, net, nChanges, panel, cursor>>

\* the user, back in the editor after Cancel, moves the cursor while the
\* generation is still running: the position getCursor() gives at line 417
MoveCursor(p) ==
    /\ modal.state = "closed"
    /\ act["gen"].pc # "idle"
    /\ p # cursor
    /\ cursor' = p
    /\ UNCHANGED <<settings, logContainer, modal, editor, act, net, nChanges, panel>>

\* GenerateClick that leaves the button enabled
GenerateClick_NoDisable(uuid) ==
    /\ modal.state = "open"
    /\ ~act["gen"].button.disabled
    /\ LET r      == act["gen"]
           prompt == modal.promptInput
       IN  IF Falsy(settings.apiKey)
           THEN /\ act' = [act EXCEPT !["gen"].notice = "Ustanovite API klyuch"]
                /\ UNCHANGED <<net, panel>>
           ELSE IF Falsy(prompt)
           THEN /\ act' = [act EXCEPT !["gen"].notice = "Vvedite zapros"]
                /\ UNCHANGED <<net, panel>>
           ELSE LET r0 == [Fresh(r, GenerateLabel) EXCEPT
                             !.cfg0 = settings,
                             !.prompt = prompt, !.context = modal.initialText,
                             !.statusEl = [text |-> "Otpravka zaprosa k GigaChat...",
                                           style |-> "hover"]]
                    r1 == [getAccessTokenSend(r0, uuid) EXCEPT !.pc = "awaitToken"]
                IN  /\ act' = [act EXCEPT !["gen"] = r1]
                    /\ net' = net \cup Outgoing("gen", r0, r1)
                    /\ panel' = appendToPanel(Logged(r0, r1))
    /\ UNCHANGED <<settings, logContainer, modal, editor, nChanges, cursor>>

\* the Generate button's onclick up to its first await (lines 383-405)
GenerateClick(uuid) ==
    /\ modal.state = "open"
    /\ ~act["gen"].button.disabled
    /\ LET r      == act["gen"]
           prompt == modal.promptInput
       IN  IF Falsy(settings.apiKey)
           THEN /\ act' = [act EXCEPT !["gen"].notice = "Ustanovite API klyuch"]
                /\ UNCHANGED <<net, panel>>
           ELSE IF Falsy(prompt)
           THEN /\ act' = [act EXCEPT !["gen"].notice = "Vvedite zapros"]
                /\ UNCHANGED <<net, panel>>
           ELSE LET r0 == [Fresh(r, GenerateLabel) EXCEPT
                             !.cfg0 = settings,
                             !.prompt = prompt, !.context = modal.initialText,
                             !.button = [text |-> "Generaciya...", disabled |-> TRUE],
                             !.statusEl = [text |-> "Otpravka zaprosa k GigaChat...",
                                           style |-> "hover"]]
                    r1 == [getAccessTokenSend(r0, uuid) EXCEPT !.pc = "awaitToken"]
                IN  /\ act' = [act EXCEPT !["gen"] = r1]
                    /\ net' = net \cup Outgoing("gen", r0, r1)
                    /\ panel' = appendToPanel(Logged(r0, r1))
    /\ UNCHANGED <<settings, logContainer, modal, editor, nChanges, cursor>>

\* the token endpoint answers the Generate handler
GenerateTokenResponse(m, ans) ==
    /\ m \in net /\ m.actor = "gen" /\ m.req.kind = "token"
    /\ LET r  == act["gen"]
           r1 == GenerateAfterToken(getAccessTokenResume(r, ans))
       IN  /\ act' = [act EXCEPT !["gen"] = r1]
           /\ net' = (net \ {m}) \cup Outgoing("gen", r, r1)
           /\ panel' = appendToPanel(Logged(r, r1))
    /\ UNCHANGED <<settings, logContainer, modal, editor, nChanges, cursor>>

\* the completion endpoint answers the Generate handler (lines 410-429): on
\* success the text goes into the editor, at the cursor read then (line 417),
\* and the modal closes
GenerateCompletionResponse(m, ans) ==
    /\ m \in net /\ m.actor = "gen" /\ m.req.kind = "completion"
    /\ LET r  == act["gen"]
           r1 == generateResume(r, ans)
       IN  IF r1.thrown # ""
           THEN LET r2 == GenerateFinally(GenerateCatch(r1))
                IN  /\ act' = [act EXCEPT !["gen"] = r2]
                    /\ panel' = appendToPanel(Logged(r, r2))
                    /\ UNCHANGED <<modal, editor>>
           ELSE /\ editor' = Append(editor, [at |-> cursor, text |-> ans.content])
                /\ modal' = [modal EXCEPT !.state = "closed"]
                /\ act' = [act EXCEPT !["gen"] =
                             GenerateFinally([r1 EXCEPT !.inserted = @ + 1])]
                /\ panel' = appendToPanel(Logged(r, r1))
    /\ net' = net \ {m}
    /\ UNCHANGED <<settings, logContainer, nChanges, cursor>>

----------------------------------------------------------------------------

Next ==
    \/ Display
    \/ Hide
    \/ \E f \in Fields : \E v \in FieldValues[f] : OnChange(f, v)
    \/ \E u \in Uuids : TestClick(u)
    \/ \E m \in net : \E ans \in TokenAnswers : TestTokenResponse(m, ans)
    \/ \E m \in net : \E ans \in CompletionAnswers : TestCompletionResponse(m, ans)
    \/ \E c \in {"generate-text", "generate-from-selection"} :
          \E sel \in Selections : OpenModal(c, sel)
    \/ \E p \in Prompts : SetPrompt(p)
    \/ \E c \in QuickCommands : QuickCommand(c)
    \/ Cancel
    \/ \E u \in Uuids : GenerateClick(u)
    \/ \E m \in net : \E ans \in TokenAnswers : GenerateTokenResponse(m, ans)
    \/ \E m \in net : \E ans \in CompletionAnswers : GenerateCompletionResponse(m, ans)

Spec == Init /\ [][Next]_vars

\* some request in flight is answered, or fails
Respond ==
    \E m \in net :
        \/ \E ans \in TokenAnswers : TestTokenResponse(m, ans)
        \/ \E ans \in CompletionAnswers : TestCompletionResponse(m, ans)
        \/ \E ans \in TokenAnswers : GenerateTokenResponse(m, ans)
        \/ \E ans \in CompletionAnswers : GenerateCompletionResponse(m, ans)

\* every request in flight is answered or fails in the end
FairSpec == Spec /\ WF_vars(Respond)

\* the handlers together with the log panel's own button
LogNext ==
    \/ Next
    \/ ClearLog

LogSpec == Init /\ [][LogNext]_vars

\* the handlers together with the user's cursor in the editor
EditorNext ==
    \/ Next
    \/ \E p \in Positions : MoveCursor(p)

EditorSpec == Init /\ [][EditorNext]_vars

----------------------------------------------------------------------------
(* Properties *)

\* the requests of one kind an action has sent
SentOf(r, kind) == {i \in 1..Len(r.sent) : r.sent[i].kind = kind}

\* the requests of handler a in flight
InFlight(a) == {m \in net : m.actor = a}

\* the answer is a success status with a body that parsed
AnswerOK(ans) == ans.net /\ ans.ok /\ ans.json

\* the action of r passed its precondition checks
Passed(r) == (r.pc # "idle" \/ r.done) /\ ~Falsy(r.cfg0.apiKey)

\* C1: a completion request has been sent by an action only if the token
\* fetch of that action returned a non-empty access token.
C1_CompletionOnlyWithToken ==
    \A a \in Actors :
        SentOf(act[a], "completion") # {} =>
            act[a].gotToken /\ ~Falsy(act[a].token)

\* the part of C1 that the connection test keeps
C1_TestOnlyWithToken ==
    SentOf(act["test"], "completion") # {} =>
        act["test"].gotToken /\ ~Falsy(act["test"].token)

\* C2: when the token endpoint answers with a non-success status, the error
\* getAccessToken throws carries the status code and text, reaches the
\* caller's catch, and the action ends without any completion request.
C2_TokenHttpError ==
    \A a \in Actors :
        LET r == act[a] IN
        (r.tokenAns.net /\ ~r.tokenAns.ok) =>
            /\ r.thrown = "HTTP " \o ToString(r.tokenAns.status) \o ": "
                              \o r.tokenAns.statusText
            /\ r.caught = r.thrown
            /\ r.done /\ r.pc = "idle"
            /\ SentOf(r, "completion") = {}
            /\ InFlight(a) = {}

C2_Witness ==
    /\ act["gen"].tokenAns.status = 401
    /\ act["gen"].caught = "HTTP 401: Unauthorized"
    /\ act["gen"].done

\* C3: every completion request of the Generate handler carries exactly one
\* message, of role "user", whose content is the prompt followed by the
\* quoted context when the modal has initial text, and the prompt verbatim
\* when it has none.
C3_MessageContent ==
    LET r == act["gen"] IN
    \A i \in SentOf(r, "completion") :
        LET messages == r.sent[i].body.messages IN
        /\ Len(messages) = 1
        /\ messages[1].role = "user"
        /\ r.context # "" =>
             messages[1].content = r.prompt \o "\n\nKontekst:\n\"" \o r.context \o "\""
        /\ r.context = "" => messages[1].content = r.prompt

C3_Witness ==
    /\ SentOf(act["gen"], "completion") # {}
    /\ act["gen"].context = "some text"
    /\ act["gen"].prompt = "Hello"

C4_State ==
    LET r == act["gen"] IN
    /\ (r.complAns.net /\ ~r.complAns.ok) =>
         /\ r.thrown = "API error: " \o ToString(r.complAns.status) \o " "
                           \o r.complAns.statusText
         /\ r.caught = r.thrown
         /\ r.inserted = 0
    /\ r.inserted \in {0, 1}
    /\ Len(editor) = r.inserted
    /\ r.inserted = 1 => r.gotToken /\ AnswerOK(r.tokenAns) /\ AnswerOK(r.complAns)
    /\ (r.done /\ AnswerOK(r.tokenAns) /\ AnswerOK(r.complAns)) => r.inserted = 1

\* C4: a non-success status of the completion endpoint makes the Generate
\* handler fail with an error carrying the status code and text, and that
\* step leaves the editor and the modal as they were; text is in the editor
\* only when the token fetch and the completion request of the click both
\* succeeded, and then it was inserted exactly once.
C4_CompletionFailure ==
    /\ []C4_State
    /\ [][ (act["gen"].pc = "awaitCompletion" /\ act'["gen"].thrown # "")
             => (editor' = editor /\ modal' = modal) ]_vars

C4_Witness ==
    /\ act["gen"].complAns.status = 500
    /\ act["gen"].done
    /\ modal.state = "open"
    /\ editor = << >>

\* the action's token fetch or completion request failed
RequestFailed(r) ==
    \/ r.tokenAns # NoAnswer /\ ~AnswerOK(r.tokenAns)
    \/ r.complAns # NoAnswer /\ ~AnswerOK(r.complAns)

\* the handler has shown the user that the action failed
FailureShown(a) ==
    IF a = "gen"
    THEN /\ act[a].statusEl.style = "error"
         /\ act[a].statusEl.text = "Oshibka: " \o act[a].thrown
    ELSE act[a].notice = "test failed"

ErrorLogged(r) == \E i \in 1..Len(r.log) : r.log[i].type = "error"

C5_FailureReported ==
    \A a \in Actors :
        LET r == act[a] IN
        /\ r.done => r.pc = "idle" /\ r.button = OriginalLabel(a)
        /\ (r.done /\ RequestFailed(r)) =>
             /\ FailureShown(a)
             /\ r.logOn => ErrorLogged(r)

C6_OneRequestAtATime ==
    \A a \in Actors :
        LET r == act[a] IN
        /\ Cardinality(InFlight(a)) <= 1
        /\ r.pc # "idle" <=> InFlight(a) # {}
        /\ Passed(r) =>
             /\ Len(r.sent) \in {1, 2}
             /\ SentOf(r, "token") = {1}
             /\ SentOf(r, "completion") \subseteq {2}
        /\ ~Passed(r) => r.sent = << >>
        /\ \A i \in SentOf(r, "completion") :
             /\ r.tokenAns # NoAnswer
             /\ \A m \in InFlight(a) : m.req.kind = "completion"
             /\ r.sent[i].authorization = "Bearer " \o Template(r.token)

C6_Witness ==
    /\ act["gen"].done
    /\ Len(act["gen"].sent) = 2
    /\ act["gen"].token = "T1"

\* C7: every request of an action uses the endpoint, credentials, model,
\* temperature and maxTokens the settings had when the action started.
C7_ConfigFixedPerAction ==
    \A a \in Actors :
        LET r == act[a] IN
        \A i \in 1..Len(r.sent) :
            LET req == r.sent[i] IN
            IF req.kind = "token"
            THEN /\ req.url = r.cfg0.authUrl
                 /\ req.authorization = "Basic " \o r.cfg0.clientId
                 /\ req.body = "scope=" \o r.cfg0.scope
            ELSE /\ req.url = r.cfg0.apiUrl \o "/chat/completions"
                 /\ req.body.model = r.cfg0.model
                 /\ a = "gen" => /\ req.body.temperature = r.cfg0.temperature
                                 /\ req.body.max_tokens = r.cfg0.maxTokens

\* the part of C7 that holds: the token request, sent in the step of the click
C7_TokenRequestFromStart ==
    \A a \in Actors :
        LET r == act[a] IN
        \A i \in SentOf(r, "token") :
            /\ r.sent[i].url = r.cfg0.authUrl
            /\ r.sent[i].authorization = "Basic " \o r.cfg0.clientId
            /\ r.sent[i].body = "scope=" \o r.cfg0.scope

C8_State ==
    /\ (act["test"].done /\ Falsy(act["test"].cfg0.apiKey)) =>
          /\ act["test"].result = "false"
          /\ act["test"].sent = << >>
    /\ \A a \in Actors :
          (Falsy(act[a].cfg0.apiKey) \/ (a = "gen" /\ Falsy(act[a].prompt))) =>
              SentOf(act[a], "token") = {} /\ InFlight(a) = {}

\* C8: with an empty API key a Generate click and testConnection send no
\* request, the click leaves button and status element alone and
\* testConnection returns false; a click with an empty prompt sends no
\* request and leaves button and status element alone.
C8_NoCallWithoutKey ==
    /\ []C8_State
    /\ [][ ((\E u \in Uuids : GenerateClick(u))
             /\ (Falsy(settings.apiKey) \/ Falsy(modal.promptInput)))
           => /\ net' = net
              /\ act'["gen"].button = act["gen"].button
              /\ act'["gen"].statusEl = act["gen"].statusEl
              /\ act'["gen"].sent = act["gen"].sent
              /\ act'["gen"].notice # "" ]_vars
    /\ [][ ((\E u \in Uuids : TestClick(u)) /\ Falsy(settings.apiKey))
           => net' = net /\ act'["test"].result = "false" ]_vars

C8_Witness ==
    /\ act["gen"].notice = "Ustanovite API klyuch"
    /\ act["gen"].button = GenerateLabel
    /\ act["gen"].statusEl.text = ""
    /\ modal.promptInput = "Hello"
    /\ net = {}

\* C9: an action that asks for a token while clientId or scope is empty
\* sends no request.
C9_NoRequestWithoutCredentials ==
    \A a \in Actors :
        LET r == act[a] IN
        (Passed(r) /\ (Falsy(r.cfg0.clientId) \/ Falsy(r.cfg0.scope))) =>
            r.sent = << >>

\* C10: testConnection ends with a boolean, true exactly when the API key
\* was set, the token fetch gave a non-empty token and the test request,
\* sent after it with temperature 0.1 and max_tokens 10, got a success
\* status with a body that parsed; until then it waits for one request.
C10_TestConnectionResult ==
    LET r == act["test"] IN
    /\ r.pc # "idle" => InFlight("test") # {} /\ r.result = "none"
    /\ r.done =>
         /\ r.result \in {"true", "false"}
         /\ r.result = "true" <=>
              /\ ~Falsy(r.cfg0.apiKey)
              /\ AnswerOK(r.tokenAns)
              /\ ~Falsy(r.token)
              /\ AnswerOK(r.complAns)
    /\ \A i \in SentOf(r, "completion") :
         /\ i = 2 /\ r.sent[1].kind = "token" /\ AnswerOK(r.tokenAns)
         /\ r.sent[i].body.temperature = 1
         /\ r.sent[i].body.max_tokens = 10

C10_Witness ==
    /\ act["test"].done
    /\ act["test"].result = "true"
    /\ settings.temperature = 7
    /\ settings.maxTokens = 1000

\* a step of handler a in which logMessage is called: its click once past
\* the checks, and every answer to one of its requests
LogStep(a) ==
    IF a = "test"
    THEN \/ \E u \in Uuids : TestClick(u)
         \/ \E m \in net :
               \/ \E ans \in TokenAnswers : TestTokenResponse(m, ans)
               \/ \E ans \in CompletionAnswers : TestCompletionResponse(m, ans)
    ELSE \/ (\E u \in Uuids : GenerateClick(u)) /\ act'["gen"].pc # "idle"
         \/ \E m \in net :
               \/ \E ans \in TokenAnswers : GenerateTokenResponse(m, ans)
               \/ \E ans \in CompletionAnswers : GenerateCompletionResponse(m, ans)

\* what the calls of such a step do to the panel: with logging enabled and
\* a container, its last child is the last entry; else it is as before
PanelRule(a) ==
    IF settings.logMessages /\ logContainer
    THEN /\ act'[a].log # << >>
         /\ panel' = act'[a].log[Len(act'[a].log)]
         /\ panel' # NoEntry
    ELSE panel' = panel

\* C11: logContainer is set by display() and cleared by hide() and by
\* nothing else, a new container being empty; a logMessage call appends its
\* entry to the panel exactly when logging is enabled and the container is
\* there at the call, and otherwise leaves the panel alone and the handler
\* goes on; no other step touches the panel.
C11_PanelEntries ==
    /\ [](~logContainer => panel = NoEntry)
    /\ [][ /\ logContainer' # logContainer => Display \/ Hide
           /\ Display => logContainer' /\ panel' = NoEntry
           /\ Hide => ~logContainer' ]_vars
    /\ [][ \A a \in Actors : LogStep(a) =>
              /\ PanelRule(a)
              /\ act'[a].pc # "idle" => InFlight(a)' # {} ]_vars
    /\ [][ ClearLog =>
              panel' = IF settings.logMessages
                       THEN [type |-> "info", message |-> "Log ochischen"]
                       ELSE NoEntry ]_vars
    /\ [][ panel' # panel =>
              \/ Display \/ Hide \/ ClearLog
              \/ (settings.logMessages /\ \E a \in Actors : LogStep(a)) ]_vars

C11_Witness ==
    /\ logContainer
    /\ act["gen"].pc = "awaitToken"
    /\ Len(act["gen"].log) = 1
    /\ panel = act["gen"].log[1]
    /\ settings.logMessages

\* C12: Cancel during a running generation changes nothing but the modal:
\* the request stays in flight and the handler goes on waiting; when the
\* completion request then succeeds the text is inserted, once, at the
\* position the cursor has at that step.
C12_CancelDoesNotAbort ==
    /\ []((modal.state = "closed" /\ act["gen"].pc # "idle") => InFlight("gen") # {})
    /\ [][ (Cancel /\ act["gen"].pc # "idle") =>
              /\ act' = act /\ net' = net /\ editor' = editor
              /\ InFlight("gen") # {} ]_vars
    /\ [][ ( /\ act["gen"].pc = "awaitCompletion" /\ modal.state = "closed"
             /\ act'["gen"].done /\ AnswerOK(act'["gen"].complAns) ) =>
              /\ Len(editor') = Len(editor) + 1
              /\ editor'[Len(editor')] = [at |-> cursor, text |-> "Generated"]
              /\ act'["gen"].inserted = 1 ]_vars
    /\ [][ cursor' # cursor => UNCHANGED <<act, net, editor, modal>> ]_vars

C12_Witness ==
    /\ act["gen"].done
    /\ editor = << [at |-> 1, text |-> "Generated"] >>
    /\ cursor = 1

\* C13: from the Generate click that passed the checks until its handler has
\* finished the button of the modal is disabled and no further click is
\* taken; the modal's handler has at most one request outstanding, and none
\* when it is not running.
C13_OneGenerationPerModal ==
    LET r == act["gen"] IN
    /\ r.pc # "idle" =>
          /\ r.button = [text |-> "Generaciya...", disabled |-> TRUE]
          /\ \A u \in Uuids : ~ENABLED GenerateClick(u)
    /\ (Passed(r) /\ ~r.done) => r.pc # "idle"
    /\ Cardinality(InFlight("gen")) <= 1
    /\ r.pc = "idle" => InFlight("gen") = {} /\ ~r.button.disabled

C13_Witness ==
    /\ act["gen"].pc = "awaitCompletion"
    /\ modal.state = "open"
    /\ act["gen"].button.disabled
    /\ Cardinality(InFlight("gen")) = 1

====
